---- MODULE Spec2Model ----
(***************************************************************************)
(* Three admin widgets that keep one field of an entity's metadata bag in  *)
(* step with local React state:                                            *)
(*   CustomerNotesWidget       (metadata.notes, a JSON array of notes)     *)
(*   QuicklinksManager         (metadata.quicklinks, a JSON array)         *)
(*   PasswordRestrictionWidget (metadata.can_change_password, a boolean)   *)
(* One behaviour observes one mounted widget instance; every other writer  *)
(* of the same entity (another widget, another admin) is the out-of-band   *)
(* writer of the remote metadata.                                          *)
(***************************************************************************)
EXTENDS Integers, Sequences, FiniteSets, TLC

\* ---------------------------------------------------------------- bounds
MaxOps == 2         \* most write-backs started in one behaviour
MaxOob == 1         \* most out-of-band writes in one behaviour

\* ------------------------------------------------------- strings and trim
\* A JS string is a sequence of characters.
Blank == " "
\* what the user types into an input
InputTexts == {<<Blank>>, <<Blank, "x">>}

RECURSIVE TrimLeft(_)
TrimLeft(s) == IF s # <<>> /\ Head(s) = Blank THEN TrimLeft(Tail(s)) ELSE s

RECURSIVE TrimRight(_)
TrimRight(s) ==
  IF s # <<>> /\ s[Len(s)] = Blank THEN TrimRight(SubSeq(s, 1, Len(s) - 1)) ELSE s

\* String.prototype.trim
Trim(s) == TrimRight(TrimLeft(s))

\* ------------------------------------------------------------- JSON text
\* A JSON text is a sequence of lexical tokens; every token has the same
\* three fields so that any two tokens can be compared.
Tok(t, s, n) == [t |-> t, s |-> s, n |-> n]
Punct(p) == Tok(p, <<>>, 0)
KeyTok(k) == Tok("key", <<k>>, 0)
StrTok(s) == Tok("str", s, 0)
NumTok(n) == Tok("num", <<>>, n)
\* the ISO-8601 string of the instant n (Date.prototype.toISOString)
IsoTok(n) == Tok("iso", <<>>, n)

ScalarKinds == {"str", "num", "iso"}
TokVal(tok) == IF tok.t = "str" THEN tok.s ELSE tok.n

\* A note; lastEdited = 0 stands for the absent optional property.
Note(id, content, timestamp, lastEdited) ==
  [id |-> id, content |-> content, timestamp |-> timestamp,
   createdBy |-> <<"Admin">>, lastEdited |-> lastEdited]
UndefNote == [id |-> 0, content |-> <<>>, timestamp |-> 0,
              createdBy |-> <<>>, lastEdited |-> 0]

Quicklink(title, link, type) == [title |-> title, link |-> link, type |-> type]
UndefQuicklink == [title |-> <<>>, link |-> <<>>, type |-> <<>>]

\* JSON.stringify of one note: an undefined lastEdited is omitted.
StringifyNote(n) ==
  <<Punct("{"), KeyTok("id"), NumTok(n.id), KeyTok("content"), StrTok(n.content),
    KeyTok("timestamp"), IsoTok(n.timestamp), KeyTok("createdBy"), StrTok(n.createdBy)>>
  \o (IF n.lastEdited = 0 THEN <<>> ELSE <<KeyTok("lastEdited"), IsoTok(n.lastEdited)>>)
  \o <<Punct("}")>>

StringifyQuicklink(q) ==
  <<Punct("{"), KeyTok("title"), StrTok(q.title), KeyTok("link"), StrTok(q.link),
    KeyTok("type"), StrTok(q.type), Punct("}")>>

RECURSIVE StringifyItems(_, _, _)
StringifyItems(list, i, isNote) ==
  IF i > Len(list) THEN <<>>
  ELSE (IF i > 1 THEN <<Punct(",")>> ELSE <<>>)
       \o (IF isNote THEN StringifyNote(list[i]) ELSE StringifyQuicklink(list[i]))
       \o StringifyItems(list, i + 1, isNote)

\* JSON.stringify of an array of notes / of quicklinks
JSONstringify(list, isNote) ==
  <<Punct("[")>> \o StringifyItems(list, 1, isNote) \o <<Punct("]")>>

\* The members of an object, from token i up to its closing brace.
RECURSIVE ParseMembers(_, _, _)
ParseMembers(s, i, obj) ==
  IF i > Len(s) THEN [ok |-> FALSE, val |-> obj, next |-> i]
  ELSE IF s[i].t = "}" THEN [ok |-> TRUE, val |-> obj, next |-> i + 1]
  ELSE IF /\ s[i].t = "key"
          /\ i + 1 <= Len(s)
          /\ s[i + 1].t \in ScalarKinds
          /\ s[i].s[1] \in DOMAIN obj
       THEN ParseMembers(s, i + 2, [obj EXCEPT ![s[i].s[1]] = TokVal(s[i + 1])])
       ELSE [ok |-> FALSE, val |-> obj, next |-> i]

\* The elements of an array, from token i (an opening brace) to the end.
RECURSIVE ParseElements(_, _, _, _)
ParseElements(s, i, acc, undef) ==
  IF i > Len(s) \/ s[i].t # "{" THEN [ok |-> FALSE, val |-> acc]
  ELSE LET m == ParseMembers(s, i + 1, undef)
       IN IF ~m.ok \/ m.next > Len(s) THEN [ok |-> FALSE, val |-> acc]
          ELSE IF s[m.next].t = "]"
               THEN [ok |-> m.next = Len(s), val |-> Append(acc, m.val)]
          ELSE IF s[m.next].t = ","
               THEN ParseElements(s, m.next + 1, Append(acc, m.val), undef)
          ELSE [ok |-> FALSE, val |-> acc]

\* JSON.parse, on texts that are a scalar, an object, or an array of objects:
\* throws on anything else; isArray is Array.isArray of the parsed value.
JSONparse(s, undef) ==
  IF s = <<>> THEN [throws |-> TRUE, isArray |-> FALSE, val |-> <<>>]
  ELSE IF s[1].t \in ScalarKinds
       THEN [throws |-> Len(s) # 1, isArray |-> FALSE, val |-> <<>>]
  ELSE IF s[1].t = "{"
       THEN LET m == ParseMembers(s, 2, undef)
            IN [throws |-> ~(m.ok /\ m.next = Len(s) + 1), isArray |-> FALSE, val |-> <<>>]
  ELSE IF s[1].t = "["
       THEN IF Len(s) = 2 /\ s[2].t = "]"
            THEN [throws |-> FALSE, isArray |-> TRUE, val |-> <<>>]
            ELSE LET e == ParseElements(s, 2, <<>>, undef)
                 IN [throws |-> ~e.ok, isArray |-> e.ok, val |-> IF e.ok THEN e.val ELSE <<>>]
  ELSE [throws |-> TRUE, isArray |-> FALSE, val |-> <<>>]

\* ------------------------------------------------------- metadata values
\* The value under one metadata key: absent, or a string.
Absent == [p |-> FALSE, s |-> <<>>]
Field(s) == [p |-> TRUE, s |-> s]
\* JS truthiness of the value: present and not the empty string
Truthy(f) == f.p /\ f.s # <<>>

\* The metadata bag of a customer: the notes field, the boolean flag
\* ("undefined", "true" or "false") and one unrelated key a.
CustomerMeta(notes, flag, a) == [notes |-> notes, can_change_password |-> flag, a |-> a]
\* The metadata bag of a product: the quicklinks field and one unrelated key a.
ProductMeta(quicklinks, a) == [quicklinks |-> quicklinks, a |-> a]
FlagOf(b) == IF b THEN "true" ELSE "false"

\* An entity as the widget holds it; present = FALSE is null / undefined.
Entity(id, metadata) == [present |-> TRUE, id |-> id, metadata |-> metadata]
NullCustomer == [present |-> FALSE, id |-> "", metadata |-> CustomerMeta(Absent, "undefined", 0)]
NullProduct == [present |-> FALSE, id |-> "", metadata |-> ProductMeta(Absent, 0)]

\* ------------------------------------------------------------ navigation
CustomerId == "cus_1"
ProductId == "prod_1"
\* The store knows customer cus_1 and product prod_1 and no other entity.
Paths == { <<"", "app", "customers", "cus_1">>,
           <<"", "app", "customers", "cus_2", "edit">>,
           <<"", "app", "customers">>,
           <<"", "app", "products", "prod_1">>,
           <<"", "app", "products", "prod_2", "variants">>,
           <<"", "app">> }

\* parts.findIndex(part => part === marker), 1-based; 0 when there is none
FindIndex(parts, marker) ==
  IF \E i \in 1..Len(parts) : parts[i] = marker
  THEN CHOOSE i \in 1..Len(parts) :
         parts[i] = marker /\ \A j \in 1..(i - 1) : parts[j] # marker
  ELSE 0

\* parts[index + 1], "" standing for null and undefined (all are falsy)
SegmentAfter(parts, marker) ==
  LET i == FindIndex(parts, marker)
  IN IF i # 0 /\ i + 1 <= Len(parts) THEN parts[i + 1] ELSE ""

getCustomerId(parts) == SegmentAfter(parts, "customers")
getProductId(parts) == SegmentAfter(parts, "products")
\* window.location.pathname.split("/").pop()
customerId(parts) == IF parts = <<>> THEN "" ELSE parts[Len(parts)]

\* ------------------------------------------------------------------ state
VARIABLES
  widget,          \* which widget this instance is: "notes", "quick" or "pw"
  oobLeft,         \* out-of-band writes still to come
  opsLeft,         \* write-backs the user may still start
  raced,           \* history: an out-of-band write fell between a re-fetch (for
                   \* the flag: the start of a set) and the update that followed
  loadedA,         \* history: the value of key a the mount effect fetched (-1: none)
  path,            \* window.location.pathname.split("/")
  clock,           \* the last reading of the wall clock (Date.now(), new Date())
  custMeta,        \* remote: the metadata bag of customer CustomerId
  prodMeta,        \* remote: the metadata bag of product ProductId
  ev,              \* the step just taken: what ran, how it ended, alert() calls
  \* CustomerNotesWidget
  n_load,          \* the mount effect: "init", "noid", "pending", "done", "failed"
  n_customer, n_notes, n_newNote, n_editingIndex, n_isSaving,
  n_calls,         \* handler invocations suspended at an await
  n_confirmed,     \* history: the list decoded at load, then of the last confirmed write
  \* QuicklinksManager
  q_load,
  q_currentProduct, q_quicklinks, q_title, q_link, q_linkType, q_isSaving,
  q_calls,
  q_confirmed,
  \* PasswordRestrictionWidget
  p_load,
  p_customer, p_passwordOption, p_isSaving,
  p_calls

envVars == <<widget, path, clock, custMeta, prodMeta, oobLeft, opsLeft>>
\* what a handler leaves alone when it starts a write-back
startVars == <<widget, path, custMeta, prodMeta, oobLeft>>
nVars == <<n_load, n_customer, n_notes, n_newNote, n_editingIndex, n_isSaving,
           n_calls, n_confirmed>>
qVars == <<q_load, q_currentProduct, q_quicklinks, q_title, q_link, q_linkType,
           q_isSaving, q_calls, q_confirmed>>
pVars == <<p_load, p_customer, p_passwordOption, p_isSaving, p_calls>>
vars == <<envVars, raced, loadedA, ev, nVars, qVars, pVars>>

\* What a step records: the operation, the outcome of the remote call that
\* resumed it, what the write-back primitive returned in it ("success",
\* "failure", or "none" when it did not return), the number of alert() calls
\* it made, and whether the remote store applied an update in it.
Ev(op, outcome, result, alerts, applied) ==
  [op |-> op, outcome |-> outcome, result |-> result, alerts |-> alerts,
   applied |-> applied]
\* a step in which no write-back returns and the remote store is not written
Plain(op, outcome) == Ev(op, outcome, "none", 0, FALSE)
\* a step that is no resumption of a write-back
Idle == Plain("none", "none")

\* ----------------------------------------------------------- remote store
\* Notes stored before the widget mounted (their ids are earlier instants).
StoredNote1 == Note(-1, <<"x">>, -1, 0)
StoredNote2 == Note(-2, <<"y">>, -2, -1)
WordText == <<Tok("word", <<"not-json">>, 0)>>
\* What the notes key may hold remotely: nothing, text that is no JSON,
\* JSON of an object, and JSON arrays of notes.
RemoteNotes ==
  { Absent, Field(WordText), Field(StringifyNote(StoredNote1)),
    Field(JSONstringify(<<>>, TRUE)),
    Field(JSONstringify(<<StoredNote2, StoredNote1>>, TRUE)) }

\* what another writer may store under the notes key
OobNotes == {Field(JSONstringify(<<StoredNote1>>, TRUE))}

StoredLink1 == Quicklink(<<"t">>, <<"u">>, <<"custom">>)
StoredLink2 == Quicklink(<<"Explore h">>, <<"h">>, <<"product">>)
RemoteQuicklinks ==
  { Absent, Field(WordText), Field(StringifyQuicklink(StoredLink1)),
    Field(JSONstringify(<<>>, FALSE)),
    Field(JSONstringify(<<StoredLink2, StoredLink1>>, FALSE)) }

OobQuicklinks == {Field(JSONstringify(<<StoredLink1>>, FALSE))}

Flags == {"undefined", "true", "false"}

\* How a retrieve can end: with the entity, with a response that holds no
\* entity, or with an error; an id the store does not know is an error.
RetrieveOutcomes(id, known) ==
  IF id = known THEN {"ok", "empty", "error"} ELSE {"error"}
\* How an update can end: with the updated entity, with a response that
\* holds no entity, or with an error.
UpdateOutcomes == {"entity", "noentity", "error"}

\* A suspended handler invocation: the handler, the value it computed (the new
\* list, the new flag), the await it is at, the metadata it merges into, and
\* the metadata its update request carries.
Call(kind, updated, stage, latest, payload) ==
  [kind |-> kind, updated |-> updated, stage |-> stage, latest |-> latest,
   payload |-> payload]

RemoveAt(seq, i) == SubSeq(seq, 1, i - 1) \o SubSeq(seq, i + 1, Len(seq))
\* Whether some call is between its re-fetch (for the flag: its start) and
\* its update.
AwaitingUpdate(calls) == \E i \in 1..Len(calls) : calls[i].stage = "update"

\* ---------------------------------------------------- CustomerNotesWidget
\* The widget returns null while customer is null: no control exists.
N_rendered == widget = "notes" /\ n_customer.present

\* The mount effect up to its first await.
N_useEffect ==
  /\ widget = "notes" /\ n_load = "init"
  /\ n_load' = IF getCustomerId(path) = "" THEN "noid" ELSE "pending"
  /\ ev' = Idle
  /\ UNCHANGED <<raced, loadedA, envVars, n_customer, n_notes, n_newNote, n_editingIndex, n_isSaving,
                 n_calls, n_confirmed, qVars, pVars>>

\* Variant: the Array.isArray test is inverted.
ParsedNotesInverted(metadata, current) ==
  IF Truthy(metadata.notes)
  THEN LET r == JSONparse(metadata.notes.s, UndefNote)
       IN IF ~r.throws /\ ~r.isArray THEN r.val ELSE <<>>
  ELSE current

\* The list fetchCustomer sets from the fetched metadata (current: the list
\* that stays when the field is falsy).
ParsedNotes(metadata, current) ==
  IF Truthy(metadata.notes)
  THEN LET r == JSONparse(metadata.notes.s, UndefNote)
       IN IF ~r.throws /\ r.isArray THEN r.val ELSE <<>>
  ELSE current

\* Variant: the catch block falls back to an entity made of the id alone.
N_fetchCustomerFallback ==
  /\ widget = "notes" /\ n_load = "pending"
  /\ \E outcome \in RetrieveOutcomes(getCustomerId(path), CustomerId) :
       /\ ev' = Plain("n_fetchCustomer", outcome)
       /\ IF outcome = "ok"
          THEN /\ n_customer' = Entity(getCustomerId(path), custMeta)
               /\ n_notes' = ParsedNotes(custMeta, n_notes)
               /\ n_load' = "done"
          ELSE /\ n_customer' = Entity(getCustomerId(path), NullCustomer.metadata)
               /\ n_notes' = n_notes
               /\ n_load' = "failed"
  /\ n_confirmed' = n_notes'
  /\ loadedA' = IF n_load' = "done" THEN custMeta.a ELSE loadedA
  /\ UNCHANGED <<raced, envVars, n_newNote, n_editingIndex, n_isSaving, n_calls, qVars, pVars>>

\* fetchCustomer resumed by the outcome of the retrieve.
N_fetchCustomer ==
  /\ widget = "notes" /\ n_load = "pending"
  /\ \E outcome \in RetrieveOutcomes(getCustomerId(path), CustomerId) :
       /\ ev' = Plain("n_fetchCustomer", outcome)
       /\ IF outcome = "ok"
          THEN /\ n_customer' = Entity(getCustomerId(path), custMeta)
               /\ n_notes' = ParsedNotes(custMeta, n_notes)
               /\ n_load' = "done"
          ELSE /\ n_customer' = NullCustomer
               /\ n_notes' = n_notes
               /\ n_load' = "failed"
  /\ n_confirmed' = n_notes'
  /\ loadedA' = IF n_load' = "done" THEN custMeta.a ELSE loadedA
  /\ UNCHANGED <<raced, envVars, n_newNote, n_editingIndex, n_isSaving, n_calls, qVars, pVars>>

\* onChange of either textarea
N_setNewNote ==
  /\ N_rendered
  /\ \E text \in InputTexts : n_newNote' = text /\ text # n_newNote
  /\ ev' = Idle
  /\ UNCHANGED <<raced, loadedA, envVars, n_load, n_customer, n_notes, n_editingIndex, n_isSaving,
                 n_calls, n_confirmed, qVars, pVars>>

\* The Edit button of the note at index (1-based; editingIndex 0 is null).
N_Edit ==
  /\ N_rendered
  /\ \E index \in 1..Len(n_notes) :
       /\ index # n_editingIndex
       /\ n_editingIndex' = index
       /\ n_newNote' = n_notes[index].content
  /\ ev' = Idle
  /\ UNCHANGED <<raced, loadedA, envVars, n_load, n_customer, n_notes, n_isSaving, n_calls,
                 n_confirmed, qVars, pVars>>

\* The Cancel button of the note in edit mode.
N_Cancel ==
  /\ N_rendered
  /\ n_editingIndex \in 1..Len(n_notes)
  /\ n_editingIndex' = 0
  /\ n_newNote' = <<>>
  /\ ev' = Idle
  /\ UNCHANGED <<raced, loadedA, envVars, n_load, n_customer, n_notes, n_isSaving, n_calls,
                 n_confirmed, qVars, pVars>>

\* Variant: the notes are merged into the copy held since the last load or
\* commit instead of the re-fetched metadata.
NotesPayloadStale(latest, updatedNotes) ==
  [n_customer.metadata EXCEPT !.notes = Field(JSONstringify(updatedNotes, TRUE))]

\* metadata: {...latest.metadata, notes: JSON.stringify(updatedNotes)}
NotesPayload(latest, updatedNotes) ==
  [latest EXCEPT !.notes = Field(JSONstringify(updatedNotes, TRUE))]

\* What Date.now() and new Date() may read: the last reading again, or a
\* later instant (readings are only ever compared with each other, so the
\* next integer stands for every later instant).
Readings == {clock, clock + 1}

\* updateCustomerMetadata up to its first await (the re-fetch).
updateCustomerMetadata(kind, updatedNotes) ==
  /\ n_customer.present /\ n_customer.id # ""
  /\ opsLeft > 0 /\ opsLeft' = opsLeft - 1
  /\ n_isSaving' = TRUE
  /\ n_calls' = Append(n_calls, Call(kind, updatedNotes, "retrieve",
                                     NullCustomer.metadata, NullCustomer.metadata))
  /\ ev' = Idle
  /\ UNCHANGED <<raced, loadedA, startVars, n_load, n_customer, n_notes, n_newNote, n_editingIndex,
                 n_confirmed, qVars, pVars>>

\* Variant: the buttons are disabled while saving only.
N_submitDisabledWhileSaving == n_isSaving

\* disabled={isSaving || !newNote.trim()} of Add Note and Save Changes
N_submitDisabled == n_isSaving \/ Trim(n_newNote) = <<>>
\* the Delete button of a note carries no disabled attribute
N_deleteDisabled == FALSE

\* Variant: the new note is put in front of the list.
addNotePrepend ==
  /\ N_rendered /\ ~N_submitDisabled
  /\ Trim(n_newNote) # <<>>
  /\ \E now \in Readings :
       /\ clock' = now
       /\ updateCustomerMetadata("addNote",
            <<Note(now, Trim(n_newNote), now, 0)>> \o n_notes)

addNote ==
  /\ N_rendered /\ ~N_submitDisabled
  /\ Trim(n_newNote) # <<>>
  /\ \E now \in Readings :
       /\ clock' = now
       /\ updateCustomerMetadata("addNote",
            Append(n_notes, Note(now, Trim(n_newNote), now, 0)))

\* notes.filter((note) => note.id !== noteId)
RECURSIVE FilterNotes(_, _)
FilterNotes(notes, noteId) ==
  IF notes = <<>> THEN <<>>
  ELSE (IF Head(notes).id # noteId THEN <<Head(notes)>> ELSE <<>>)
       \o FilterNotes(Tail(notes), noteId)

deleteNote ==
  /\ N_rendered /\ ~N_deleteDisabled
  /\ clock' = clock
  /\ \E index \in 1..Len(n_notes) :
       /\ index # n_editingIndex
       /\ updateCustomerMetadata("deleteNote", FilterNotes(n_notes, n_notes[index].id))

\* Variant: the comparison of the ids is inverted.
MapEditInverted(notes, noteId, content, now) ==
  [i \in 1..Len(notes) |->
     IF notes[i].id # noteId
     THEN [notes[i] EXCEPT !.content = content, !.lastEdited = now]
     ELSE notes[i]]

\* Variant: the edit stamps timestamp, not lastEdited.
MapEditRestamp(notes, noteId, content, now) ==
  [i \in 1..Len(notes) |->
     IF notes[i].id = noteId
     THEN [notes[i] EXCEPT !.content = content, !.timestamp = now]
     ELSE notes[i]]

\* notes.map(note => note.id === noteId ? {...note, content, lastEdited} : note)
MapEdit(notes, noteId, content, now) ==
  [i \in 1..Len(notes) |->
     IF notes[i].id = noteId
     THEN [notes[i] EXCEPT !.content = content, !.lastEdited = now]
     ELSE notes[i]]

saveEdit ==
  /\ N_rendered /\ ~N_submitDisabled
  /\ n_editingIndex \in 1..Len(n_notes)
  /\ \E now \in Readings :
       /\ clock' = now
       /\ updateCustomerMetadata("saveEdit",
            MapEdit(n_notes, n_notes[n_editingIndex].id, Trim(n_newNote), now))

\* Variant: the catch block returns true as well.
NotesUpdateConfirmedAlways(outcome) == outcome \in UpdateOutcomes

\* Whether updateCustomerMetadata returns true for this outcome of the update.
NotesUpdateConfirmed(outcome) == outcome = "entity"
\* alert() calls of updateCustomerMetadata's catch block
NotesCatchAlerts == 1

\* Variant: setIsSaving(false) at the end of the try block, in place of the
\* finally block.
N_retrievedInTry ==
  /\ widget = "notes"
  /\ \E k \in 1..Len(n_calls) : \E outcome \in RetrieveOutcomes(n_customer.id, CustomerId) :
       /\ n_calls[k].stage = "retrieve"
       /\ IF outcome = "ok"
          THEN /\ n_calls' = [n_calls EXCEPT ![k] =
                    Call(@.kind, @.updated, "update", custMeta,
                         NotesPayload(custMeta, @.updated))]
               /\ n_isSaving' = n_isSaving
               /\ ev' = Plain("n_retrieved", outcome)
          ELSE /\ n_calls' = RemoveAt(n_calls, k)
               /\ n_isSaving' = n_isSaving
               /\ ev' = Ev("n_retrieved", outcome, "failure", NotesCatchAlerts, FALSE)
  /\ UNCHANGED <<raced, loadedA, envVars, n_load, n_customer, n_notes, n_newNote, n_editingIndex,
                 n_confirmed, qVars, pVars>>

\* updateCustomerMetadata resumed by the outcome of its re-fetch.
N_retrieved ==
  /\ widget = "notes"
  /\ \E k \in 1..Len(n_calls) : \E outcome \in RetrieveOutcomes(n_customer.id, CustomerId) :
       /\ n_calls[k].stage = "retrieve"
       /\ IF outcome = "ok"
          THEN /\ n_calls' = [n_calls EXCEPT ![k] =
                    Call(@.kind, @.updated, "update", custMeta,
                         NotesPayload(custMeta, @.updated))]
               /\ n_isSaving' = n_isSaving
               /\ ev' = Plain("n_retrieved", outcome)
          ELSE /\ n_calls' = RemoveAt(n_calls, k)
               /\ n_isSaving' = FALSE
               /\ ev' = Ev("n_retrieved", outcome, "failure", NotesCatchAlerts, FALSE)
  /\ UNCHANGED <<raced, loadedA, envVars, n_load, n_customer, n_notes, n_newNote, n_editingIndex,
                 n_confirmed, qVars, pVars>>

\* Variant: the store writes the notes key alone and keeps the other keys it
\* holds.
N_updatedMerging ==
  /\ widget = "notes"
  /\ \E k \in 1..Len(n_calls) : \E outcome \in UpdateOutcomes : \E applied \in BOOLEAN :
       LET c == n_calls[k]
           success == NotesUpdateConfirmed(outcome)
       IN /\ c.stage = "update"
          /\ outcome = "entity" => applied
          /\ custMeta' = IF applied THEN [custMeta EXCEPT !.notes = c.payload.notes]
                                   ELSE custMeta
          /\ n_calls' = RemoveAt(n_calls, k)
          /\ n_isSaving' = FALSE
          /\ n_confirmed' = IF outcome = "entity" THEN c.updated ELSE n_confirmed
          /\ n_customer' = IF success THEN Entity(n_customer.id, custMeta') ELSE n_customer
          /\ n_notes' = IF success THEN c.updated ELSE n_notes
          /\ n_newNote' = IF success /\ c.kind \in {"addNote", "saveEdit"} THEN <<>> ELSE n_newNote
          /\ n_editingIndex' = IF success /\ c.kind = "saveEdit" THEN 0 ELSE n_editingIndex
          /\ ev' = Ev("n_updated", outcome, IF success THEN "success" ELSE "failure",
                      IF success THEN 0 ELSE NotesCatchAlerts, applied)
  /\ UNCHANGED <<raced, loadedA, widget, path, clock, prodMeta, oobLeft, opsLeft, n_load, qVars, pVars>>

\* updateCustomerMetadata resumed by the outcome of its update, and the rest
\* of the handler that awaited it.
N_updated ==
  /\ widget = "notes"
  /\ \E k \in 1..Len(n_calls) : \E outcome \in UpdateOutcomes : \E applied \in BOOLEAN :
       LET c == n_calls[k]
           success == NotesUpdateConfirmed(outcome)
       IN /\ c.stage = "update"
          /\ outcome = "entity" => applied
          /\ custMeta' = IF applied THEN c.payload ELSE custMeta
          /\ n_calls' = RemoveAt(n_calls, k)
          /\ n_isSaving' = FALSE
          /\ n_confirmed' = IF outcome = "entity" THEN c.updated ELSE n_confirmed
          /\ n_customer' = IF success THEN Entity(n_customer.id, custMeta') ELSE n_customer
          /\ n_notes' = IF success THEN c.updated ELSE n_notes
          /\ n_newNote' = IF success /\ c.kind \in {"addNote", "saveEdit"} THEN <<>> ELSE n_newNote
          /\ n_editingIndex' = IF success /\ c.kind = "saveEdit" THEN 0 ELSE n_editingIndex
          /\ ev' = Ev("n_updated", outcome, IF success THEN "success" ELSE "failure",
                      IF success THEN 0 ELSE NotesCatchAlerts, applied)
  /\ UNCHANGED <<raced, loadedA, widget, path, clock, prodMeta, oobLeft, opsLeft, n_load, qVars, pVars>>

\* ------------------------------------------------------ QuicklinksManager
Q_rendered == widget = "quick" /\ q_currentProduct.present

Q_useEffect ==
  /\ widget = "quick" /\ q_load = "init"
  /\ q_load' = IF getProductId(path) = "" THEN "noid" ELSE "pending"
  /\ ev' = Idle
  /\ UNCHANGED <<raced, loadedA, envVars, q_currentProduct, q_quicklinks, q_title, q_link, q_linkType,
                 q_isSaving, q_calls, q_confirmed, nVars, pVars>>

ParsedQuicklinks(metadata, current) ==
  IF Truthy(metadata.quicklinks)
  THEN LET r == JSONparse(metadata.quicklinks.s, UndefQuicklink)
       IN IF ~r.throws /\ r.isArray THEN r.val ELSE <<>>
  ELSE current

\* loadProduct resumed by the outcome of the retrieve.
Q_loadProduct ==
  /\ widget = "quick" /\ q_load = "pending"
  /\ \E outcome \in RetrieveOutcomes(getProductId(path), ProductId) :
       /\ ev' = Plain("q_loadProduct", outcome)
       /\ IF outcome = "ok"
          THEN /\ q_currentProduct' = Entity(getProductId(path), prodMeta)
               /\ q_quicklinks' = ParsedQuicklinks(prodMeta, q_quicklinks)
               /\ q_load' = "done"
          ELSE /\ q_currentProduct' = NullProduct
               /\ q_quicklinks' = q_quicklinks
               /\ q_load' = "failed"
  /\ q_confirmed' = q_quicklinks'
  /\ loadedA' = IF q_load' = "done" THEN prodMeta.a ELSE loadedA
  /\ UNCHANGED <<raced, envVars, q_title, q_link, q_linkType, q_isSaving, q_calls, nVars, pVars>>

LinkTypes == {"custom", "product", "collection"}
\* handles of the products and collections the pickers list
Handles == {<<"h">>}

\* onValueChange of the link type select
Q_setLinkType ==
  /\ Q_rendered
  /\ \E value \in LinkTypes : value # q_linkType /\ q_linkType' = value
  /\ q_link' = <<>>
  /\ q_title' = <<>>
  /\ ev' = Idle
  /\ UNCHANGED <<raced, loadedA, envVars, q_load, q_currentProduct, q_quicklinks, q_isSaving, q_calls,
                 q_confirmed, nVars, pVars>>

\* onChange of the title and link inputs of a custom link
Q_setTitle ==
  /\ Q_rendered /\ q_linkType = "custom"
  /\ \E text \in InputTexts : text # q_title /\ q_title' = text
  /\ ev' = Idle
  /\ UNCHANGED <<raced, loadedA, envVars, q_load, q_currentProduct, q_quicklinks, q_link, q_linkType,
                 q_isSaving, q_calls, q_confirmed, nVars, pVars>>

Q_setLink ==
  /\ Q_rendered /\ q_linkType = "custom"
  /\ \E text \in InputTexts : text # q_link /\ q_link' = text
  /\ ev' = Idle
  /\ UNCHANGED <<raced, loadedA, envVars, q_load, q_currentProduct, q_quicklinks, q_title, q_linkType,
                 q_isSaving, q_calls, q_confirmed, nVars, pVars>>

\* onValueChange of the product and of the collection picker
Q_pick ==
  /\ Q_rendered /\ q_linkType \in {"product", "collection"}
  /\ \E value \in Handles :
       /\ value # <<>> /\ value # q_link
       /\ q_link' = value
       /\ q_title' = IF q_linkType = "product" THEN <<"Explore ">> \o value
                                                 ELSE <<"Explore From ">> \o value
  /\ ev' = Idle
  /\ UNCHANGED <<raced, loadedA, envVars, q_load, q_currentProduct, q_quicklinks, q_linkType,
                 q_isSaving, q_calls, q_confirmed, nVars, pVars>>

\* metadata: {...latest.metadata, quicklinks: JSON.stringify(updatedQuicklinks)}
QuicklinksPayload(latest, updatedQuicklinks) ==
  [latest EXCEPT !.quicklinks = Field(JSONstringify(updatedQuicklinks, FALSE))]

\* updateProductMetadata up to its first await (the re-fetch).
updateProductMetadata(kind, updatedQuicklinks) ==
  /\ q_currentProduct.present /\ q_currentProduct.id # ""
  /\ opsLeft > 0 /\ opsLeft' = opsLeft - 1
  /\ q_isSaving' = TRUE /\ clock' = clock
  /\ q_calls' = Append(q_calls, Call(kind, updatedQuicklinks, "retrieve",
                                     NullProduct.metadata, NullProduct.metadata))
  /\ ev' = Idle
  /\ UNCHANGED <<raced, loadedA, startVars, q_load, q_currentProduct, q_quicklinks, q_title, q_link,
                 q_linkType, q_confirmed, nVars, pVars>>

\* !link.trim() || (linkType === 'custom' && !title.trim())
Q_inputRejected == Trim(q_link) = <<>> \/ (q_linkType = "custom" /\ Trim(q_title) = <<>>)
\* disabled of the Add Quicklink button, and of a Delete button
Q_addDisabled == q_isSaving \/ Q_inputRejected
Q_deleteDisabled == q_isSaving

handleAddQuicklink ==
  /\ Q_rendered /\ ~Q_addDisabled
  /\ ~Q_inputRejected
  /\ updateProductMetadata("handleAddQuicklink",
       Append(q_quicklinks,
              Quicklink(IF q_title # <<>> THEN q_title ELSE q_link, Trim(q_link),
                        <<q_linkType>>)))

handleRemoveQuicklink ==
  /\ Q_rendered /\ ~Q_deleteDisabled
  /\ \E index \in 1..Len(q_quicklinks) :
       updateProductMetadata("handleRemoveQuicklink", RemoveAt(q_quicklinks, index))

\* Whether updateProductMetadata returns true for this outcome of the update:
\* the response is not looked at.
QuicklinksUpdateConfirmed(outcome) == outcome \in {"entity", "noentity"}
\* alert() calls of updateProductMetadata's catch block
QuicklinksCatchAlerts == 0

Q_retrieved ==
  /\ widget = "quick"
  /\ \E k \in 1..Len(q_calls) :
     \E outcome \in RetrieveOutcomes(q_currentProduct.id, ProductId) :
       /\ q_calls[k].stage = "retrieve"
       /\ IF outcome = "ok"
          THEN /\ q_calls' = [q_calls EXCEPT ![k] =
                    Call(@.kind, @.updated, "update", prodMeta,
                         QuicklinksPayload(prodMeta, @.updated))]
               /\ q_isSaving' = q_isSaving
               /\ ev' = Plain("q_retrieved", outcome)
          ELSE /\ q_calls' = RemoveAt(q_calls, k)
               /\ q_isSaving' = FALSE
               /\ ev' = Ev("q_retrieved", outcome, "failure", QuicklinksCatchAlerts, FALSE)
  /\ UNCHANGED <<raced, loadedA, envVars, q_load, q_currentProduct, q_quicklinks, q_title, q_link,
                 q_linkType, q_confirmed, nVars, pVars>>

Q_updated ==
  /\ widget = "quick"
  /\ \E k \in 1..Len(q_calls) : \E outcome \in UpdateOutcomes : \E applied \in BOOLEAN :
       LET c == q_calls[k]
           success == QuicklinksUpdateConfirmed(outcome)
           added == success /\ c.kind = "handleAddQuicklink"
       IN /\ c.stage = "update"
          /\ outcome = "entity" => applied
          /\ prodMeta' = IF applied THEN c.payload ELSE prodMeta
          /\ q_calls' = RemoveAt(q_calls, k)
          /\ q_isSaving' = FALSE
          /\ q_confirmed' = IF outcome = "entity" THEN c.updated ELSE q_confirmed
          /\ q_quicklinks' = IF success THEN c.updated ELSE q_quicklinks
          /\ q_title' = IF added THEN <<>> ELSE q_title
          /\ q_link' = IF added THEN <<>> ELSE q_link
          /\ q_linkType' = IF added THEN "custom" ELSE q_linkType
          /\ ev' = Ev("q_updated", outcome, IF success THEN "success" ELSE "failure",
                      IF success THEN 0 ELSE QuicklinksCatchAlerts, applied)
  /\ UNCHANGED <<raced, loadedA, widget, path, clock, custMeta, oobLeft, opsLeft, q_load, q_currentProduct, nVars, pVars>>

\* ---------------------------------------------- PasswordRestrictionWidget
P_rendered == widget = "pw" /\ p_customer.present

P_useEffect ==
  /\ widget = "pw" /\ p_load = "init"
  /\ p_load' = IF customerId(path) = "" THEN "noid" ELSE "pending"
  /\ ev' = Idle
  /\ UNCHANGED <<raced, loadedA, envVars, p_customer, p_passwordOption, p_isSaving, p_calls, nVars, qVars>>

\* Variant: the default is taken with || in place of ??.
CanChangePasswordOr(entity) ==
  IF ~entity.present \/ entity.metadata.can_change_password # "true"
  THEN TRUE
  ELSE entity.metadata.can_change_password = "true"

\* customer?.metadata?.can_change_password as boolean ?? true
CanChangePassword(entity) ==
  IF ~entity.present \/ entity.metadata.can_change_password = "undefined"
  THEN TRUE
  ELSE entity.metadata.can_change_password = "true"

\* The then / catch callbacks of the retrieve made by the mount effect.
P_retrieved ==
  /\ widget = "pw" /\ p_load = "pending"
  /\ \E outcome \in RetrieveOutcomes(customerId(path), CustomerId) :
       LET customer == IF outcome = "ok" THEN Entity(customerId(path), custMeta)
                                         ELSE NullCustomer
       IN /\ ev' = Plain("p_retrieved", outcome)
          /\ p_load' = IF outcome = "ok" THEN "done" ELSE "failed"
          /\ p_customer' = IF outcome = "error" THEN p_customer ELSE customer
          /\ p_passwordOption' = IF outcome = "error" THEN p_passwordOption
                                                       ELSE CanChangePassword(customer)
          /\ loadedA' = IF outcome = "ok" THEN custMeta.a ELSE loadedA
  /\ UNCHANGED <<raced, envVars, p_isSaving, p_calls, nVars, qVars>>

\* metadata: {...customer.metadata, can_change_password: option}
PasswordPayload(metadata, option) ==
  [metadata EXCEPT !.can_change_password = FlagOf(option)]
\* The metadata handleOptionChange merges the flag into: the local copy.
PasswordMergeBase == p_customer.metadata

\* disabled={isSaving} of the radio group
P_radioDisabled == p_isSaving

\* handleOptionChange up to its await; onValueChange fires for the item that
\* is not the selected one.
handleOptionChange ==
  /\ P_rendered /\ ~P_radioDisabled
  /\ p_customer.id # ""
  /\ opsLeft > 0 /\ opsLeft' = opsLeft - 1
  /\ \E option \in BOOLEAN :
       /\ option # p_passwordOption
       /\ p_calls' = Append(p_calls, Call("handleOptionChange", option, "update",
                        PasswordMergeBase, PasswordPayload(PasswordMergeBase, option)))
  /\ p_isSaving' = TRUE /\ clock' = clock
  /\ ev' = Idle
  /\ UNCHANGED <<raced, loadedA, startVars, p_load, p_customer, p_passwordOption, nVars, qVars>>

\* Variant: the response is not looked at.
PasswordUpdateUnchecked(outcome) == outcome # "error"

\* Whether handleOptionChange commits for this outcome of the update.
PasswordUpdateConfirmed(outcome) == outcome = "entity"
\* alert() calls of handleOptionChange's catch block
PasswordCatchAlerts == 0

\* handleOptionChange resumed by the outcome of its update.
P_updated ==
  /\ widget = "pw"
  /\ \E k \in 1..Len(p_calls) : \E outcome \in UpdateOutcomes : \E applied \in BOOLEAN :
       LET c == p_calls[k]
           success == PasswordUpdateConfirmed(outcome)
       IN /\ outcome = "entity" => applied
          /\ custMeta' = IF applied THEN c.payload ELSE custMeta
          /\ p_calls' = RemoveAt(p_calls, k)
          /\ p_isSaving' = FALSE
          /\ p_customer' = IF success THEN Entity(p_customer.id, custMeta') ELSE p_customer
          /\ p_passwordOption' = IF success THEN c.updated ELSE p_passwordOption
          /\ ev' = Ev("p_updated", outcome, IF success THEN "success" ELSE "failure",
                      IF success THEN 0 ELSE PasswordCatchAlerts, applied)
  /\ UNCHANGED <<raced, loadedA, widget, path, clock, prodMeta, oobLeft, opsLeft, p_load, nVars, qVars>>

\* ------------------------------------------------------------ environment
\* Another writer changes one key of the customer's metadata.
OutOfBandCustomer ==
  /\ widget \in {"notes", "pw"}
  /\ oobLeft > 0 /\ oobLeft' = oobLeft - 1
  /\ \/ custMeta' = [custMeta EXCEPT !.a = @ + 1]
     \/ \E f \in Flags : /\ widget = "pw" /\ f # custMeta.can_change_password
                         /\ custMeta' = [custMeta EXCEPT !.can_change_password = f]
     \/ \E t \in OobNotes : t # custMeta.notes /\ custMeta' = [custMeta EXCEPT !.notes = t]
  /\ raced' = (raced \/ AwaitingUpdate(n_calls) \/ AwaitingUpdate(p_calls))
  /\ ev' = Idle
  /\ UNCHANGED <<loadedA, widget, path, clock, prodMeta, opsLeft, nVars, qVars, pVars>>

\* Another writer changes one key of the product's metadata.
OutOfBandProduct ==
  /\ widget = "quick"
  /\ oobLeft > 0 /\ oobLeft' = oobLeft - 1
  /\ \/ prodMeta' = [prodMeta EXCEPT !.a = @ + 1]
     \/ \E t \in OobQuicklinks :
          t # prodMeta.quicklinks /\ prodMeta' = [prodMeta EXCEPT !.quicklinks = t]
  /\ raced' = (raced \/ AwaitingUpdate(q_calls))
  /\ ev' = Idle
  /\ UNCHANGED <<loadedA, widget, path, clock, custMeta, opsLeft, nVars, qVars, pVars>>

\* ------------------------------------------------------------------ system
Init ==
  /\ widget \in {"notes", "quick", "pw"}
  /\ path \in Paths
  /\ clock = 1
  /\ oobLeft = MaxOob /\ opsLeft = MaxOps /\ loadedA = -1 /\ raced = FALSE
  /\ custMeta \in CASE widget = "notes" -> {CustomerMeta(n, "true", 0) : n \in RemoteNotes}
                    [] widget = "pw" -> {CustomerMeta(n, f, 0) :
                                           n \in {Absent} \cup OobNotes,
                                           f \in Flags}
                    [] OTHER -> {NullCustomer.metadata}
  /\ prodMeta \in IF widget = "quick"
                  THEN {ProductMeta(q, 0) : q \in RemoteQuicklinks}
                  ELSE {NullProduct.metadata}
  /\ ev = Idle
  /\ n_load = "init" /\ n_customer = NullCustomer /\ n_notes = <<>> /\ n_newNote = <<>>
  /\ n_editingIndex = 0 /\ n_isSaving = FALSE /\ n_calls = <<>> /\ n_confirmed = <<>>
  /\ q_load = "init" /\ q_currentProduct = NullProduct /\ q_quicklinks = <<>>
  /\ q_title = <<>> /\ q_link = <<>> /\ q_linkType = "custom" /\ q_isSaving = FALSE
  /\ q_calls = <<>> /\ q_confirmed = <<>>
  /\ p_load = "init" /\ p_customer = NullCustomer /\ p_passwordOption = TRUE
  /\ p_isSaving = FALSE /\ p_calls = <<>>

Next ==
  \/ N_useEffect \/ N_fetchCustomer \/ N_setNewNote \/ N_Edit \/ N_Cancel
  \/ addNote \/ deleteNote \/ saveEdit \/ N_retrieved \/ N_updated
  \/ Q_useEffect \/ Q_loadProduct \/ Q_setLinkType \/ Q_setTitle \/ Q_setLink \/ Q_pick
  \/ handleAddQuicklink \/ handleRemoveQuicklink \/ Q_retrieved \/ Q_updated
  \/ P_useEffect \/ P_retrieved \/ handleOptionChange \/ P_updated
  \/ OutOfBandCustomer \/ OutOfBandProduct

Spec == Init /\ [][Next]_vars

\* The password-restriction widget alone.
InitPw == Init /\ widget = "pw"
NextPw == P_useEffect \/ P_retrieved \/ handleOptionChange \/ P_updated \/ OutOfBandCustomer
SpecPw == InitPw /\ [][NextPw]_vars

\* The two list widgets with appends as their only mutation.
InitAppend == Init /\ widget \in {"notes", "quick"}
NextAppend ==
  \/ N_useEffect \/ N_fetchCustomer \/ N_setNewNote \/ addNote \/ N_retrieved \/ N_updated
  \/ Q_useEffect \/ Q_loadProduct \/ Q_setLinkType \/ Q_setTitle \/ Q_setLink \/ Q_pick
  \/ handleAddQuicklink \/ Q_retrieved \/ Q_updated
  \/ OutOfBandCustomer \/ OutOfBandProduct
SpecAppend == InitAppend /\ [][NextAppend]_vars

\* The handlers called as functions, with any argument: the ids of the notes
\* held and one id no note has; the positions of the list and the two
\* positions next to its ends.
NoteIds == {n_notes[i].id : i \in 1..Len(n_notes)} \cup {0}
QuicklinkIndexes == 0..(Len(q_quicklinks) + 1)

\* deleteNote(noteId)
deleteNoteCall ==
  /\ widget = "notes"
  /\ clock' = clock
  /\ \E noteId \in NoteIds :
       updateCustomerMetadata("deleteNote", FilterNotes(n_notes, noteId))

\* saveEdit(noteId)
saveEditCall ==
  /\ widget = "notes"
  /\ \E noteId \in NoteIds : \E now \in Readings :
       /\ clock' = now
       /\ updateCustomerMetadata("saveEdit", MapEdit(n_notes, noteId, Trim(n_newNote), now))

\* handleRemoveQuicklink(index)
handleRemoveQuicklinkCall ==
  /\ widget = "quick"
  /\ \E index \in QuicklinkIndexes :
       updateProductMetadata("handleRemoveQuicklink", RemoveAt(q_quicklinks, index))

InitCalls == Init /\ widget \in {"notes", "quick"}
NextCalls ==
  \/ N_useEffect \/ N_fetchCustomer \/ N_setNewNote \/ N_Edit \/ N_Cancel
  \/ deleteNoteCall \/ saveEditCall \/ N_retrieved \/ N_updated
  \/ Q_useEffect \/ Q_loadProduct \/ handleRemoveQuicklinkCall \/ Q_retrieved \/ Q_updated
  \/ OutOfBandCustomer \/ OutOfBandProduct
SpecCalls == InitCalls /\ [][NextCalls]_vars

\* Every remote call returns or fails: the promise a handler awaits is
\* settled, and the handler resumes.
RemoteCallsReturn ==
  /\ WF_vars(N_retrieved) /\ WF_vars(N_updated)
  /\ WF_vars(Q_retrieved) /\ WF_vars(Q_updated)
  /\ WF_vars(P_updated)
SpecReturns == Init /\ [][Next]_vars /\ RemoteCallsReturn

\* ------------------------------------------------------------- properties
\* the steps in which a list widget's write-back primitive is resumed
ListResumptions == {"n_retrieved", "n_updated", "q_retrieved", "q_updated"}

\* C1: every write-back of the notes and of the quicklinks widget sends the
\* metadata its own re-fetch returned with only its own field replaced by the
\* encoded new list; and in a run in which no out-of-band write has fallen
\* between a re-fetch and the update that followed it, every update leaves
\* every other remote key as it was.
C1_FreshMerge ==
  [][ /\ (ev'.op = "n_retrieved" /\ ev'.outcome = "ok") =>
           \E k \in 1..Len(n_calls) :
             /\ n_calls[k].stage = "retrieve"
             /\ n_calls' = [n_calls EXCEPT ![k] =
                  [@ EXCEPT !.stage = "update", !.latest = custMeta,
                            !.payload = CustomerMeta(Field(JSONstringify(n_calls[k].updated, TRUE)),
                                                     custMeta.can_change_password, custMeta.a)]]
      /\ (ev'.op = "q_retrieved" /\ ev'.outcome = "ok") =>
           \E k \in 1..Len(q_calls) :
             /\ q_calls[k].stage = "retrieve"
             /\ q_calls' = [q_calls EXCEPT ![k] =
                  [@ EXCEPT !.stage = "update", !.latest = prodMeta,
                            !.payload = ProductMeta(Field(JSONstringify(q_calls[k].updated, FALSE)),
                                                    prodMeta.a)]]
      /\ (ev'.op = "n_updated" /\ ev'.applied /\ ~raced') =>
           /\ custMeta'.a = custMeta.a
           /\ custMeta'.can_change_password = custMeta.can_change_password
      /\ (ev'.op = "q_updated" /\ ev'.applied /\ ~raced') => prodMeta'.a = prodMeta.a
    ]_vars

\* A notes write-back was applied with no out-of-band write since its
\* re-fetch, and key a still has the value another writer gave it after the
\* widget loaded.
C1_Witness ==
  /\ ev.op = "n_updated" /\ ev.outcome = "entity" /\ ~raced
  /\ loadedA # -1 /\ custMeta.a # loadedA
  /\ n_customer.metadata.a = custMeta.a

\* C2: the in-memory list of the notes and of the quicklinks widget is the
\* list of the last write the remote store confirmed with an updated entity
\* (the list decoded at load before any such write).
C2_ListIsConfirmed == n_notes = n_confirmed /\ q_quicklinks = q_confirmed

\* C3: a list mutation whose re-fetch or update errors leaves the local list,
\* the input buffers and the editing state as they were; and the local list
\* only ever moves, in one step, to the whole list a handler computed.
C3_AtomicCommit ==
  [][ /\ (ev'.op \in ListResumptions /\ ev'.outcome \in {"error", "empty"}) =>
           UNCHANGED <<n_notes, n_newNote, n_editingIndex,
                       q_quicklinks, q_title, q_link, q_linkType>>
      /\ ev'.op \in {"n_retrieved", "n_updated"} =>
           \/ n_notes' = n_notes
           \/ \E k \in 1..Len(n_calls) : n_calls[k].stage = "update" /\ n_notes' = n_calls[k].updated
      /\ ev'.op \in {"q_retrieved", "q_updated"} =>
           \/ q_quicklinks' = q_quicklinks
           \/ \E k \in 1..Len(q_calls) :
                q_calls[k].stage = "update" /\ q_quicklinks' = q_calls[k].updated
    ]_vars

\* The update of a note edit has just errored: the note is still in edit mode
\* with its text in the buffer.
C3_Witness ==
  /\ ev.op = "n_updated" /\ ev.outcome = "error"
  /\ n_calls = <<>> /\ n_editingIndex # 0 /\ Trim(n_newNote) # <<>>

\* C4: at most one fetch-merge-update sequence per widget is in progress.
C4_OneInFlight == Len(n_calls) <= 1 /\ Len(q_calls) <= 1 /\ Len(p_calls) <= 1

\* C5: the write-back primitive of both list widgets returns failure when the
\* re-fetch errors, when the update errors and when the update response holds
\* no entity, and success only when the response holds the updated entity.
C5_ReturnValue ==
  /\ (ev.op \in {"n_retrieved", "q_retrieved"} /\ ev.outcome # "ok") => ev.result = "failure"
  /\ ev.op \in {"n_updated", "q_updated"} =>
       ev.result = IF ev.outcome = "entity" THEN "success" ELSE "failure"

\* C6: setting the flag leaves every other remote key of the customer as it
\* was just before the update, when no other writer wrote since the set began.
C6_FlagSetKeepsOtherKeys ==
  [][ (ev'.op = "p_updated" /\ ev'.applied /\ ~raced') =>
        /\ custMeta'.notes = custMeta.notes
        /\ custMeta'.a = custMeta.a ]_vars

\* C7: when handleOptionChange(v) completes, passwordOption is v exactly when
\* the update returned an updated customer; otherwise passwordOption and the
\* local customer are unchanged; and no alert is raised either way.
C7_FlagCommit ==
  [][ ev'.op = "p_updated" =>
        \E k \in 1..Len(p_calls) :
          /\ p_calls' = RemoveAt(p_calls, k)
          /\ (p_passwordOption' = p_calls[k].updated) <=> (ev'.outcome = "entity")
          /\ ev'.outcome # "entity" => UNCHANGED <<p_passwordOption, p_customer>>
          /\ ev'.alerts = 0 ]_vars

\* An update of the flag has just come back without a customer, after another
\* one had been committed.
C7_Witness ==
  /\ ev.op = "p_updated" /\ ev.outcome = "noentity"
  /\ opsLeft = 0 /\ p_customer.metadata.can_change_password = FlagOf(p_passwordOption)
  /\ p_calls = <<>> /\ ~p_isSaving

\* lists whose encodings the remote store may hold
StoredNoteLists == {<<>>, <<StoredNote1>>, <<StoredNote2, StoredNote1>>}
StoredLinkLists == {<<>>, <<StoredLink1>>, <<StoredLink2, StoredLink1>>}

\* C8: right after a load that fetched the entity, the widget holds it; the
\* list is empty when the field is text that is no JSON or JSON of a
\* non-array, and is the stored array, in order, when the field encodes one.
C8_Load ==
  /\ (ev.op = "n_fetchCustomer" /\ ev.outcome = "ok") =>
       /\ n_customer.present /\ N_rendered /\ n_load = "done"
       /\ n_customer.metadata.notes \in {Field(WordText), Field(StringifyNote(StoredNote1))}
            => n_notes = <<>>
       /\ \A list \in StoredNoteLists :
            n_customer.metadata.notes = Field(JSONstringify(list, TRUE)) => n_notes = list
  /\ (ev.op = "q_loadProduct" /\ ev.outcome = "ok") =>
       /\ q_currentProduct.present /\ Q_rendered /\ q_load = "done"
       /\ q_currentProduct.metadata.quicklinks
            \in {Field(WordText), Field(StringifyQuicklink(StoredLink1))}
            => q_quicklinks = <<>>
       /\ \A list \in StoredLinkLists :
            q_currentProduct.metadata.quicklinks = Field(JSONstringify(list, FALSE))
              => q_quicklinks = list

\* The notes widget has just loaded a customer whose notes field is no JSON.
C8_Witness ==
  /\ ev.op = "n_fetchCustomer" /\ ev.outcome = "ok"
  /\ n_customer.metadata.notes = Field(WordText) /\ n_notes = <<>>

\* C9: once the initial retrieve has failed, the widget never holds an
\* entity, never fetches again and never has a write-back in progress.
C9_FailedLoadIsFinal ==
  [][ /\ n_load = "failed" =>
           n_load' = "failed" /\ ~n_customer'.present /\ ~N_rendered' /\ n_calls' = <<>>
      /\ q_load = "failed" =>
           q_load' = "failed" /\ ~q_currentProduct'.present /\ ~Q_rendered' /\ q_calls' = <<>>
      /\ p_load = "failed" =>
           p_load' = "failed" /\ ~p_customer'.present /\ ~P_rendered' /\ p_calls' = <<>>
      /\ (n_load = "failed" \/ q_load = "failed" \/ p_load = "failed") => ev' = Idle
    ]_vars

\* The retrieve of an entity the store knows failed, and time has passed.
C9_Witness ==
  /\ n_load = "failed" /\ getCustomerId(path) = CustomerId
  /\ oobLeft = 0 /\ ev = Idle

\* C10: a failed write-back of a list mutation raises exactly one alert, a
\* successful one none, and a failed flag update none.
C10_Alerts ==
  /\ (ev.op \in ListResumptions /\ ev.result = "failure") => ev.alerts = 1
  /\ (ev.op \in ListResumptions /\ ev.result = "success") => ev.alerts = 0
  /\ ev.op = "p_updated" => ev.alerts = 0

\* C11: in a run whose only mutations are appends, each append starts when
\* none is in flight and computes the current list followed by one new item;
\* its write-back carries the encoding of that list; and when it succeeds the
\* local list becomes the list it had followed by the new item, and the input
\* buffer is cleared.
C11_SequentialAppends ==
  [][ /\ Len(n_calls') <= 1 /\ Len(q_calls') <= 1
      /\ (n_calls = <<>> /\ n_calls' # <<>>) =>
           /\ Len(n_calls'[1].updated) = Len(n_notes) + 1
           /\ SubSeq(n_calls'[1].updated, 1, Len(n_notes)) = n_notes
      /\ (ev'.op = "n_retrieved" /\ ev'.outcome = "ok") =>
           /\ SubSeq(n_calls'[1].updated, 1, Len(n_notes)) = n_notes
           /\ n_calls'[1].payload.notes = Field(JSONstringify(n_calls'[1].updated, TRUE))
      /\ (ev'.op = "n_updated" /\ ev'.result = "success") =>
           /\ Len(n_notes') = Len(n_notes) + 1
           /\ SubSeq(n_notes', 1, Len(n_notes)) = n_notes
           /\ n_notes' = n_calls[1].updated
           /\ custMeta'.notes = Field(JSONstringify(n_notes', TRUE))
           /\ n_newNote' = <<>>
      /\ (q_calls = <<>> /\ q_calls' # <<>>) =>
           /\ Len(q_calls'[1].updated) = Len(q_quicklinks) + 1
           /\ SubSeq(q_calls'[1].updated, 1, Len(q_quicklinks)) = q_quicklinks
      /\ (ev'.op = "q_retrieved" /\ ev'.outcome = "ok") =>
           /\ SubSeq(q_calls'[1].updated, 1, Len(q_quicklinks)) = q_quicklinks
           /\ q_calls'[1].payload.quicklinks = Field(JSONstringify(q_calls'[1].updated, FALSE))
      /\ (ev'.op = "q_updated" /\ ev'.result = "success") =>
           /\ Len(q_quicklinks') = Len(q_quicklinks) + 1
           /\ SubSeq(q_quicklinks', 1, Len(q_quicklinks)) = q_quicklinks
           /\ q_quicklinks' = q_calls[1].updated
           /\ ev'.applied => prodMeta'.quicklinks = Field(JSONstringify(q_quicklinks', FALSE))
           /\ q_title' = <<>> /\ q_link' = <<>>
    ]_vars

\* Two appends in a row on the two stored notes have succeeded.
C11_Witness ==
  /\ widget = "notes" /\ opsLeft = 0 /\ n_calls = <<>> /\ n_newNote = <<>>
  /\ Len(n_notes) = 4 /\ SubSeq(n_notes, 1, 2) = <<StoredNote2, StoredNote1>>
  /\ n_notes[3].id <= n_notes[4].id
  /\ custMeta.notes = Field(JSONstringify(n_notes, TRUE))

\* C12: a removal that leaves the list as it is (the key is absent) still
\* sends an update, whose payload is the encoding of the current list, and
\* when it completes the local list and the persisted field are what they
\* were.
C12_AbsentKeyNoOp ==
  [][ /\ (ev'.op = "n_updated" /\ ev'.applied) =>
           \A k \in 1..Len(n_calls) :
             (n_calls' = RemoveAt(n_calls, k) /\ n_calls[k].stage = "update"
              /\ n_calls[k].kind = "deleteNote" /\ n_calls[k].updated = n_notes) =>
               /\ n_calls[k].payload.notes = Field(JSONstringify(n_notes, TRUE))
               /\ n_notes' = n_notes
               /\ custMeta'.notes = custMeta.notes
      /\ (ev'.op = "q_updated" /\ ev'.applied) =>
           \A k \in 1..Len(q_calls) :
             (q_calls' = RemoveAt(q_calls, k) /\ q_calls[k].stage = "update"
              /\ q_calls[k].kind = "handleRemoveQuicklink"
              /\ q_calls[k].updated = q_quicklinks) =>
               /\ q_calls[k].payload.quicklinks = Field(JSONstringify(q_quicklinks, FALSE))
               /\ q_quicklinks' = q_quicklinks
               /\ prodMeta'.quicklinks = prodMeta.quicklinks
    ]_vars

\* C13: saveEdit with an id no note has computes the current list itself; its
\* write-back carries the encoding of the current list, returns success when
\* the update returns the entity, and leaves every note of the local list as
\* it was.
C13_EditOfNoNote ==
  [][ /\ \A i \in 1..Len(n_notes) : n_notes[i].id # 0
      /\ \A now \in Readings : MapEdit(n_notes, 0, Trim(n_newNote), now) = n_notes
      /\ (ev'.op = "n_retrieved" /\ ev'.outcome = "ok") =>
           \A k \in 1..Len(n_calls) :
             (n_calls'[k] # n_calls[k] /\ n_calls[k].kind = "saveEdit"
              /\ n_calls[k].updated = n_notes) =>
               n_calls'[k].payload.notes = Field(JSONstringify(n_notes, TRUE))
      /\ ev'.op = "n_updated" =>
           \A k \in 1..Len(n_calls) :
             (n_calls' = RemoveAt(n_calls, k) /\ n_calls[k].stage = "update"
              /\ n_calls[k].kind = "saveEdit" /\ n_calls[k].updated = n_notes) =>
               /\ ev'.outcome = "entity" => ev'.result = "success"
               /\ n_notes' = n_notes
    ]_vars

\* A saveEdit of no note, on the two stored notes, is about to send its
\* update.
C13_Witness ==
  /\ Len(n_calls) = 1 /\ n_calls[1].kind = "saveEdit" /\ n_calls[1].stage = "update"
  /\ n_notes = <<StoredNote2, StoredNote1>> /\ n_calls[1].updated = n_notes
  /\ Trim(n_newNote) # <<>>
  /\ n_calls[1].payload.notes = Field(JSONstringify(n_notes, TRUE))

\* C14: no addNote or saveEdit starts a write-back while the note text is
\* empty after trimming, and no handleAddQuicklink while the link (or, for a
\* custom link, the title) is; and no list a handler computes holds a note
\* with empty content or a quicklink with an empty link or title.
C14_EmptyContentRejected ==
  [][ /\ (/\ Len(n_calls') > Len(n_calls)
          /\ n_calls'[Len(n_calls')].kind \in {"addNote", "saveEdit"}) =>
           Trim(n_newNote) # <<>>
      /\ (/\ Len(q_calls') > Len(q_calls)
          /\ q_calls'[Len(q_calls')].kind = "handleAddQuicklink") =>
           /\ Trim(q_link) # <<>>
           /\ q_linkType = "custom" => Trim(q_title) # <<>>
      /\ \A k \in 1..Len(n_calls') : \A i \in 1..Len(n_calls'[k].updated) :
           n_calls'[k].updated[i].content # <<>>
      /\ \A k \in 1..Len(q_calls') : \A i \in 1..Len(q_calls'[k].updated) :
           q_calls'[k].updated[i].link # <<>> /\ q_calls'[k].updated[i].title # <<>>
    ]_vars

\* A note is in edit mode with a buffer of blanks, nothing is being saved and
\* one write-back has been made before: Save Changes and Add Note are
\* disabled by the text alone.
C14_Witness ==
  /\ N_rendered /\ ~n_isSaving /\ n_calls = <<>> /\ opsLeft = MaxOps - 1
  /\ n_editingIndex \in 1..Len(n_notes)
  /\ n_newNote # <<>> /\ Trim(n_newNote) = <<>>
  /\ N_submitDisabled

\* C15: once its mount effect has run, each widget has taken as entity id the
\* path segment that follows the marker segment (customers, products), also
\* when more segments follow the id; and with no marker in the path it never
\* holds an entity.
C15_SubjectId ==
  /\ (widget = "notes" /\ n_load # "init") =>
       /\ \A i \in 1..(Len(path) - 1) : path[i] = "customers" => getCustomerId(path) = path[i + 1]
       /\ (\A i \in 1..Len(path) : path[i] # "customers") =>
            ~n_customer.present
  /\ (widget = "quick" /\ q_load # "init") =>
       /\ \A i \in 1..(Len(path) - 1) : path[i] = "products" => getProductId(path) = path[i + 1]
       /\ (\A i \in 1..Len(path) : path[i] # "products") =>
            ~q_currentProduct.present
  /\ (widget = "pw" /\ p_load # "init") =>
       /\ \A i \in 1..(Len(path) - 1) : path[i] = "customers" => customerId(path) = path[i + 1]
       /\ (\A i \in 1..Len(path) : path[i] # "customers") =>
            ~p_customer.present

\* C16: right after the load of the password-restriction widget fetched the
\* customer, the local flag is the stored can_change_password, and true when
\* the key is absent; a stored false is loaded as false.
C16_FlagLoad ==
  (ev.op = "p_retrieved" /\ ev.outcome = "ok") =>
    /\ p_customer.present /\ p_customer.metadata = custMeta
    /\ custMeta.can_change_password = "true" => p_passwordOption = TRUE
    /\ custMeta.can_change_password = "false" => p_passwordOption = FALSE
    /\ custMeta.can_change_password = "undefined" => p_passwordOption = TRUE

\* The widget has just loaded a customer whose stored flag is false.
C16_Witness ==
  /\ ev.op = "p_retrieved" /\ ev.outcome = "ok"
  /\ custMeta.can_change_password = "false" /\ p_passwordOption = FALSE

\* C17: an update the store applies replaces the whole metadata by what the
\* write-back computed at its re-fetch, whatever the store holds by then:
\* every other key gets the value it had at the re-fetch.
C17_BlindOverwrite ==
  [][ /\ (ev'.op = "n_updated" /\ ev'.applied) =>
           \E k \in 1..Len(n_calls) :
             /\ n_calls' = RemoveAt(n_calls, k) /\ n_calls[k].stage = "update"
             /\ custMeta' = n_calls[k].payload
             /\ custMeta'.a = n_calls[k].latest.a
             /\ custMeta'.can_change_password = n_calls[k].latest.can_change_password
      /\ (ev'.op = "q_updated" /\ ev'.applied) =>
           \E k \in 1..Len(q_calls) :
             /\ q_calls' = RemoveAt(q_calls, k) /\ q_calls[k].stage = "update"
             /\ prodMeta' = q_calls[k].payload
             /\ prodMeta'.a = q_calls[k].latest.a
    ]_vars

\* The lost update: the one out-of-band write fell between the re-fetch and
\* the update of the one write-back made, and after the update neither the
\* key a nor the notes key holds what that writer may have stored.
C17_Witness ==
  /\ ev.op = "n_updated" /\ ev.applied /\ raced
  /\ oobLeft = MaxOob - 1 /\ opsLeft = MaxOps - 1
  /\ custMeta.a = loadedA
  /\ custMeta.notes \notin OobNotes

\* C18: the list saveEdit computes has the notes of the current list in the
\* same number and order, each with its id, timestamp and createdBy; the notes
\* whose id is not the one of the note in edit mode are as they were, and the
\* others have the trimmed text as content and the time of the call as
\* lastEdited; on success that list becomes the local list.
C18_KeyStable ==
  [][ /\ (/\ Len(n_calls') > Len(n_calls)
          /\ n_calls'[Len(n_calls')].kind = "saveEdit") =>
           LET u == n_calls'[Len(n_calls')].updated
               noteId == n_notes[n_editingIndex].id
           IN /\ Len(u) = Len(n_notes)
              /\ \A i \in 1..Len(n_notes) :
                   /\ u[i].id = n_notes[i].id
                   /\ u[i].timestamp = n_notes[i].timestamp
                   /\ u[i].createdBy = n_notes[i].createdBy
                   /\ n_notes[i].id # noteId => u[i] = n_notes[i]
                   /\ n_notes[i].id = noteId =>
                        u[i].content = Trim(n_newNote) /\ u[i].lastEdited = clock'
      /\ (ev'.op = "n_updated" /\ ev'.result = "success") =>
           \A k \in 1..Len(n_calls) :
             (n_calls' = RemoveAt(n_calls, k) /\ n_calls[k].stage = "update"
              /\ n_calls[k].kind = "saveEdit") => n_notes' = n_calls[k].updated
    ]_vars

\* The first of the two stored notes has just been edited: it has its id and
\* timestamp, a new content and a lastEdited of this session, and the second
\* note is as stored.
C18_Witness ==
  /\ ev.op = "n_updated" /\ ev.result = "success" /\ n_editingIndex = 0
  /\ Len(n_notes) = 2 /\ n_notes[2] = StoredNote1
  /\ n_notes[1].id = StoredNote2.id /\ n_notes[1].timestamp = StoredNote2.timestamp
  /\ n_notes[1].content = <<"x">> /\ n_notes[1].lastEdited >= 1

\* C19: no two notes of the local list have the same id, so that removing by
\* the id of a note removes exactly one note and editing by it changes
\* exactly one.
C19_UniqueIds ==
  \A i \in 1..Len(n_notes) :
    /\ \A j \in 1..Len(n_notes) : i # j => n_notes[i].id # n_notes[j].id
    /\ Len(FilterNotes(n_notes, n_notes[i].id)) = Len(n_notes) - 1
    /\ Cardinality({j \in 1..Len(n_notes) :
                      MapEdit(n_notes, n_notes[i].id, <<"z">>, clock + 1)[j] # n_notes[j]}) = 1

\* C20: while a note is in edit mode and editingIndex is not set anew (by
\* Edit, Cancel or a completed Save Changes), a step that keeps that note in
\* the list (an add or a delete of another note completing) leaves it the
\* note at position editingIndex.
C20_EditedNoteIsFixed ==
  [][ ( /\ n_editingIndex \in 1..Len(n_notes)
        /\ n_editingIndex' = n_editingIndex
        /\ \E j \in 1..Len(n_notes') : n_notes'[j].id = n_notes[n_editingIndex].id ) =>
        /\ n_editingIndex' \in 1..Len(n_notes')
        /\ n_notes'[n_editingIndex'].id = n_notes[n_editingIndex].id
    ]_vars

\* C21: when every remote call returns or fails, the write-backs in flight in
\* a widget all finish and its saving flag is false again, whatever their
\* outcomes; the flag is true only while a write-back is in flight.
C21_SavingEnds ==
  /\ (\/ n_calls # <<>> \/ q_calls # <<>> \/ p_calls # <<>>
      \/ n_isSaving \/ q_isSaving \/ p_isSaving)
       ~> (/\ n_calls = <<>> /\ q_calls = <<>> /\ p_calls = <<>>
           /\ ~n_isSaving /\ ~q_isSaving /\ ~p_isSaving)
  /\ [](/\ n_isSaving => n_calls # <<>>
        /\ q_isSaving => q_calls # <<>>
        /\ p_isSaving => p_calls # <<>>)

\* A write-back of the notes widget has just failed on its re-fetch, none is
\* in flight and the saving flag is false.
C21_Witness ==
  /\ ev.op = "n_retrieved" /\ ev.result = "failure"
  /\ n_calls = <<>> /\ ~n_isSaving

====
